---- MODULE Spec2Model ----
(***************************************************************************)
(* The device registry of wld (src/config.rs) and the commands and tools   *)
(* that use it (src/main.rs, src/mcp.rs).                                  *)
(*                                                                         *)
(* Spec        a Config created by Config::new() and then driven by any    *)
(*             sequence of add_device, remove_device, set_default and      *)
(*             get_device_ip calls.                                        *)
(* SpecLoaded  get_device_ip on any Config value that Config::load() can   *)
(*             deserialize from a file (the default may be dangling).      *)
(* SpecCli     invocations of the add, delete and set-default commands     *)
(*             against the persisted file, their steps interleaved.        *)
(* SpecRoundTrip  Config::save then Config::load of any Config.            *)
(* SpecOne     one command or one tool call (src/mcp.rs) of any kind, on   *)
(*             any content of the file, with the requests it sends.        *)
(* SpecSession the commands of one shell run one after the other, without  *)
(*             I/O errors, with ls and wled_devices between them.          *)
(* SpecPair    a device command and then the tool of the same name, on     *)
(*             the same file and with the same arguments.                  *)
(* SpecServer  tool calls of the MCP server, interleaved with an add       *)
(*             command run from a shell.                                   *)
(* SpecAdd     add commands whose name may be the empty string.            *)
(* SpecTwin    two delete commands on the same file, up to the return of   *)
(*             remove_device.                                              *)
(* SpecRace    concurrent add, delete and set-default commands whose       *)
(*             loads and saves interleave, without I/O errors.             *)
(***************************************************************************)
EXTENDS Naturals, Sequences, FiniteSets, TLC

VARIABLES config, call, result, calls, file, inv, started

vars == <<config, call, result, calls, file, inv, started>>

regVars == <<config, call, result, calls>>
cliVars == <<file, inv, started>>

(***************************************************************************)
(* Bounds.                                                                 *)
(***************************************************************************)
NumNames == 3
NumAddrs == 2
MaxCalls == 4
NumProcs == 2
MaxInvocations == 3

NamePool == <<"living_room", "bedroom", "192.168.1.100", "", "kitchen">>
AddrPool == <<"192.168.1.100", "192.168.1.101", "10.0.0.5", "wled.local">>

Min(a, b) == IF a < b THEN a ELSE b

\* Device names: any String, compared by exact equality.
Names == {NamePool[i] : i \in 1..Min(NumNames, Len(NamePool))}
\* Addresses: any String, never validated.
Addrs == {AddrPool[i] : i \in 1..Min(NumAddrs, Len(AddrPool))}
\* What a caller may pass as --device: a name or a literal address.
Identifiers == Names \cup Addrs

(***************************************************************************)
(* Option<T> and Result<T, String>.                                        *)
(***************************************************************************)
None == <<>>
Some(x) == <<x>>
Unit == "()"
Ok(v) == [ok |-> TRUE, val |-> v]
Err(e) == [ok |-> FALSE, val |-> e]

\* format!("Device '{name}' not found")
NotFound(name) == "Device '" \o name \o "' not found"
NoDeviceSpecified == "No device specified and no default device set"

(***************************************************************************)
(* struct Config and its methods.                                          *)
(***************************************************************************)
EmptyMap == [n \in {} |-> ""]

\* HashMap::insert, HashMap::remove
insert(d, k, v) == [n \in DOMAIN d \cup {k} |-> IF n = k THEN v ELSE d[n]]
remove(d, k) == [n \in DOMAIN d \ {k} |-> d[n]]

new == [devices |-> EmptyMap, default_device |-> None]

\* Variants of add_device: the default is taken over by every add; the
\* default is never assigned; an existing entry keeps its old address.
add_device_always_default(c, name, ip) ==
    [devices |-> insert(c.devices, name, ip), default_device |-> Some(name)]

add_device_never_default(c, name, ip) ==
    [devices |-> insert(c.devices, name, ip),
     default_device |-> c.default_device]

add_device_keep_existing(c, name, ip) ==
    LET d == IF name \in DOMAIN c.devices
             THEN c.devices
             ELSE insert(c.devices, name, ip)
    IN  [devices |-> d,
         default_device |-> IF Cardinality(DOMAIN d) = 1
                            THEN Some(name)
                            ELSE c.default_device]

add_device(c, name, ip) ==
    LET d == insert(c.devices, name, ip)
    IN  [devices |-> d,
         default_device |-> IF Cardinality(DOMAIN d) = 1
                            THEN Some(name)
                            ELSE c.default_device]

\* Variants of remove_device: the default is cleared but no other device
\* is promoted; the default is left as it was; a name that is not a key is
\* ignored.
remove_device_ignore_missing(c, name) ==
    LET d == remove(c.devices, name)
    IN  IF c.default_device = Some(name) /\ name \in DOMAIN c.devices
        THEN IF DOMAIN d = {}
             THEN {[config |-> [devices |-> d, default_device |-> None],
                    result |-> Ok(Unit)]}
             ELSE {[config |-> [devices |-> d,
                                default_device |-> Some(first_name)],
                    result |-> Ok(Unit)] : first_name \in DOMAIN d}
        ELSE {[config |-> [devices |-> d,
                           default_device |-> c.default_device],
               result |-> Ok(Unit)]}

\* After a removal some remaining key is made the default, whichever
\* device was removed.
remove_device_always_promotes(c, name) ==
    IF name \notin DOMAIN c.devices
    THEN {[config |-> c, result |-> Err(NotFound(name))]}
    ELSE LET d == remove(c.devices, name)
         IN  IF DOMAIN d = {}
             THEN {[config |-> [devices |-> d, default_device |-> None],
                    result |-> Ok(Unit)]}
             ELSE {[config |-> [devices |-> d,
                                default_device |-> Some(first_name)],
                    result |-> Ok(Unit)] : first_name \in DOMAIN d}

remove_device_no_promotion(c, name) ==
    IF name \notin DOMAIN c.devices
    THEN {[config |-> c, result |-> Err(NotFound(name))]}
    ELSE {[config |-> [devices |-> remove(c.devices, name),
                       default_device |-> IF c.default_device = Some(name)
                                          THEN None
                                          ELSE c.default_device],
           result |-> Ok(Unit)]}

remove_device_stale_default(c, name) ==
    IF name \notin DOMAIN c.devices
    THEN {[config |-> c, result |-> Err(NotFound(name))]}
    ELSE {[config |-> [devices |-> remove(c.devices, name),
                       default_device |-> c.default_device],
           result |-> Ok(Unit)]}

\* The set of outcomes: keys().next() of a HashMap is any remaining key.
remove_device(c, name) ==
    IF name \notin DOMAIN c.devices
    THEN {[config |-> c, result |-> Err(NotFound(name))]}
    ELSE LET d == remove(c.devices, name)
         IN  IF c.default_device = Some(name)
             THEN IF DOMAIN d = {}
                  THEN {[config |-> [devices |-> d, default_device |-> None],
                         result |-> Ok(Unit)]}
                  ELSE {[config |-> [devices |-> d,
                                     default_device |-> Some(first_name)],
                         result |-> Ok(Unit)] : first_name \in DOMAIN d}
             ELSE {[config |-> [devices |-> d,
                                default_device |-> c.default_device],
                    result |-> Ok(Unit)]}

\* Variants of set_default: the check is made but the default is not
\* assigned; no contains_key check.
set_default_ignore_missing(c, name) ==
    IF name \notin DOMAIN c.devices
    THEN [config |-> c, result |-> Ok(Unit)]
    ELSE [config |-> [devices |-> c.devices, default_device |-> Some(name)],
          result |-> Ok(Unit)]

set_default_not_assigned(c, name) ==
    IF name \notin DOMAIN c.devices
    THEN [config |-> c, result |-> Err(NotFound(name))]
    ELSE [config |-> c, result |-> Ok(Unit)]

set_default_unchecked(c, name) ==
    [config |-> [devices |-> c.devices, default_device |-> Some(name)],
     result |-> Ok(Unit)]

set_default(c, name) ==
    IF name \notin DOMAIN c.devices
    THEN [config |-> c, result |-> Err(NotFound(name))]
    ELSE [config |-> [devices |-> c.devices, default_device |-> Some(name)],
          result |-> Ok(Unit)]

\* Variants of get_device_ip: an identifier that is a known address is
\* passed through before the name lookup; a default that is not a key is
\* returned as if it were an address; the default is ignored in favour of
\* some registered device.
get_device_ip_address_first(c, name_or_ip) ==
    IF name_or_ip # None
    THEN LET identifier == name_or_ip[1]
         IN  IF identifier \in Addrs
             THEN Ok(identifier)
             ELSE IF identifier \in DOMAIN c.devices
                  THEN Ok(c.devices[identifier])
                  ELSE Ok(identifier)
    ELSE IF /\ c.default_device # None
            /\ c.default_device[1] \in DOMAIN c.devices
         THEN Ok(c.devices[c.default_device[1]])
         ELSE Err(NoDeviceSpecified)

get_device_ip_dangling_passthrough(c, name_or_ip) ==
    IF name_or_ip # None
    THEN LET identifier == name_or_ip[1]
         IN  IF identifier \in DOMAIN c.devices
             THEN Ok(c.devices[identifier])
             ELSE Ok(identifier)
    ELSE IF c.default_device # None
         THEN IF c.default_device[1] \in DOMAIN c.devices
              THEN Ok(c.devices[c.default_device[1]])
              ELSE Ok(c.default_device[1])
         ELSE Err(NoDeviceSpecified)

get_device_ip_any_device(c, name_or_ip) ==
    IF name_or_ip # None
    THEN LET identifier == name_or_ip[1]
         IN  IF identifier \in DOMAIN c.devices
             THEN Ok(c.devices[identifier])
             ELSE Ok(identifier)
    ELSE IF DOMAIN c.devices # {}
         THEN Ok(c.devices[CHOOSE n \in DOMAIN c.devices : TRUE])
         ELSE Err(NoDeviceSpecified)

get_device_ip(c, name_or_ip) ==
    IF name_or_ip # None
    THEN LET identifier == name_or_ip[1]
         IN  IF identifier \in DOMAIN c.devices
             THEN Ok(c.devices[identifier])
             ELSE Ok(identifier)
    ELSE IF /\ c.default_device # None
            /\ c.default_device[1] \in DOMAIN c.devices
         THEN Ok(c.devices[c.default_device[1]])
         ELSE Err(NoDeviceSpecified)

(***************************************************************************)
(* Every value of Config that deserialization can produce: any map and     *)
(* any optional name, related or not.                                      *)
(***************************************************************************)
Maps == UNION {[S -> Addrs] : S \in SUBSET Names}
Configs == [devices : Maps,
            default_device : {None} \cup {Some(n) : n \in Names}]

(***************************************************************************)
(* Calls on one Config value.                                              *)
(***************************************************************************)
Add(name, ip) ==
    /\ Len(calls) < MaxCalls
    /\ config' = add_device(config, name, ip)
    /\ call' = [fn |-> "add_device", name |-> name, ip |-> ip]
    /\ result' = Unit
    /\ calls' = Append(calls, [call |-> call', result |-> result'])
    /\ UNCHANGED cliVars

Remove(name) ==
    /\ Len(calls) < MaxCalls
    /\ \E o \in remove_device(config, name) :
         /\ config' = o.config
         /\ result' = o.result
    /\ call' = [fn |-> "remove_device", name |-> name]
    /\ calls' = Append(calls, [call |-> call', result |-> result'])
    /\ UNCHANGED cliVars

SetDefault(name) ==
    /\ Len(calls) < MaxCalls
    /\ LET o == set_default(config, name)
       IN  /\ config' = o.config
           /\ result' = o.result
    /\ call' = [fn |-> "set_default", name |-> name]
    /\ calls' = Append(calls, [call |-> call', result |-> result'])
    /\ UNCHANGED cliVars

Resolve(name_or_ip) ==
    /\ result' = get_device_ip(config, name_or_ip)
    /\ call' = [fn |-> "get_device_ip", name_or_ip |-> name_or_ip]
    /\ UNCHANGED <<config, calls>>
    /\ UNCHANGED cliVars

(***************************************************************************)
(* The persisted file ~/.wld.toml.  Its content is a sequence of lines as  *)
(* toml::to_string_pretty writes them: the default_device value when it is *)
(* Some, the [devices] table header, then one line per entry in the        *)
(* iteration order of the HashMap.                                         *)
(***************************************************************************)
DefaultLine(x) == [t |-> "kv", k |-> "default_device", v |-> x]
TableHeader == [t |-> "table", k |-> "devices", v |-> ""]
EntryLine(n, a) == [t |-> "kv", k |-> n, v |-> a]
\* A line cut short by an interrupted write.
TornLine == [t |-> "torn", k |-> "", v |-> ""]

ParseError == "TOML parse error"
MissingDevices == "missing field devices"
IoError == "I/O error"

\* Every order in which a HashMap may iterate over the keys S.
Orderings(S) ==
    {o \in [1..Cardinality(S) -> S] :
        \A i, j \in 1..Cardinality(S) : i # j => o[i] # o[j]}

\* A variant that writes no [devices] header for an empty map.
to_string_pretty_skip_empty_table(c) ==
    {(IF c.default_device = None
      THEN <<>>
      ELSE <<DefaultLine(c.default_device[1])>>)
     \o (IF DOMAIN c.devices = {} THEN <<>> ELSE <<TableHeader>>)
     \o [i \in 1..Cardinality(DOMAIN c.devices) |->
            EntryLine(o[i], c.devices[o[i]])] :
     o \in Orderings(DOMAIN c.devices)}

to_string_pretty(c) ==
    {(IF c.default_device = None
      THEN <<>>
      ELSE <<DefaultLine(c.default_device[1])>>)
     \o <<TableHeader>>
     \o [i \in 1..Cardinality(DOMAIN c.devices) |->
            EntryLine(o[i], c.devices[o[i]])] :
     o \in Orderings(DOMAIN c.devices)}

from_str(content) ==
    LET n == Len(content)
        tables == {i \in 1..n : content[i].t = "table"}
    IN  IF \E i \in 1..n : content[i].t = "torn"
        THEN Err(ParseError)
        ELSE IF tables = {}
        THEN Err(MissingDevices)
        ELSE LET h == CHOOSE i \in tables : TRUE
                 keys == {content[i].k : i \in (h + 1)..n}
             IN  Ok([devices |->
                       [k \in keys |->
                          content[CHOOSE i \in (h + 1)..n :
                                    content[i].k = k].v],
                     default_device |->
                       IF h > 1 THEN Some(content[1].v) ELSE None])

\* A variant that reads the file without testing that the path exists.
load_missing_is_error(f) == IF f = None THEN Err(IoError) ELSE from_str(f[1])

\* A variant that falls back to the empty Config when the file does not
\* parse.
load_invalid_is_empty(f) ==
    IF f = None
    THEN Ok(new)
    ELSE IF from_str(f[1]).ok THEN from_str(f[1]) ELSE Ok(new)

\* Config::load on the file f: None when the path does not exist.
load(f) == IF f = None THEN Ok(new) ELSE from_str(f[1])

\* What fs::write can leave behind when it fails half way: the file was
\* truncated and some of the lines were written, the last perhaps in part.
Partial(content) ==
    {SubSeq(content, 1, i) : i \in 0..(Len(content) - 1)}
    \cup {Append(SubSeq(content, 1, i), TornLine) :
             i \in 0..(Len(content) - 1)}

(***************************************************************************)
(* The add, delete and set-default commands of run(), one process per      *)
(* invocation.                                                             *)
(***************************************************************************)
Procs == 1..NumProcs

Commands ==
    [fn : {"add"}, name : Names, ip : Addrs]
    \cup [fn : {"delete"}, name : Names]
    \cup [fn : {"set-default"}, name : Names]

\* Option<String> arguments of --device and of the tools.
DeviceArgs == {None} \cup {Some(i) : i \in Identifiers \cup {""}}
\* Values of the u8 argument of brightness.
BrightnessValues == {0, 255}

\* The commands of run() that read the registry only.
ReadCommands ==
    {[fn |-> "ls"], [fn |-> "status"]}
    \cup [fn : {"on", "off"}, device : DeviceArgs]
    \cup [fn : {"brightness"}, value : BrightnessValues, device : DeviceArgs]

\* The tools of WledMcpServer that control a device.
ToolCalls ==
    [fn : {"wled_on", "wled_off"}, device : DeviceArgs]
    \cup [fn : {"wled_brightness"}, value : BrightnessValues,
           device : DeviceArgs]

\* The tools of WledMcpServer that take no parameter.
ReadTools == {[fn |-> "wled_devices"], [fn |-> "wled_status"]}

IsTool(cmd) ==
    cmd.fn \in {"wled_devices", "wled_on", "wled_off", "wled_brightness",
                "wled_status"}
IsPower(cmd) == cmd.fn \in {"on", "off", "wled_on", "wled_off"}
IsBrightness(cmd) == cmd.fn \in {"brightness", "wled_brightness"}
IsDeviceCommand(cmd) == IsPower(cmd) \/ IsBrightness(cmd)
IsMutation(cmd) == cmd.fn \in {"add", "delete", "set-default"}

\* CallToolResult::success / CallToolResult::error with one text content.
ToolSuccess(text) == [is_error |-> FALSE, text |-> text]
ToolError(text) == [is_error |-> TRUE, text |-> text]

\* State of the WLED JSON API, with the two fields the commands set.
DefaultState == [on |-> None, bri |-> None]
DeviceStates ==
    [on : {None, Some(TRUE), Some(FALSE)}, bri : {None, Some(128)}]

UrlError == "empty host"
DeviceError == "error sending request"

\* reqwest::Url::parse(&format!("http://{ip}")) succeeds.
UrlOk(ip) == ip # ""

\* ip, wled and http belong to set_device_power and set_device_brightness:
\* the resolved address, wled.state and the requests sent to devices.
\* todo, all_reachable and output belong to the status sweep: the entries
\* the loop has not visited yet, the flag and the pieces pushed onto the
\* text of wled_status.  Each request of http carries its answer.
NotStarted ==
    [pc |-> "idle", cmd |-> [fn |-> "none"], config |-> new,
     exit |-> None, stdout |-> <<>>, stderr |-> <<>>,
     reply |-> None, ip |-> "", wled |-> None, http |-> <<>>,
     todo |-> {}, all_reachable |-> TRUE, output |-> <<>>]

CliIdle == [p \in Procs |-> NotStarted]

\* A variant of main that reports the error and returns normally.
Fail_exit_zero(proc, e) ==
    IF IsTool(proc.cmd)
    THEN [proc EXCEPT !.pc = "done", !.reply = Some(ToolError(e))]
    ELSE [proc EXCEPT !.pc = "done", !.exit = Some(0),
                      !.stderr = Append(@, "Error: " \o e)]

\* main: eprintln!("Error: {e}"); std::process::exit(1)
\* A tool: Ok(Err(e)) => Ok(CallToolResult::error(vec![Content::text(e)]))
\* wled_devices: format!("Failed to load configuration: {e}")
Fail(proc, e) ==
    IF IsTool(proc.cmd)
    THEN [proc EXCEPT !.pc = "done",
                      !.reply =
                        Some(ToolError(
                               IF proc.cmd.fn = "wled_devices"
                               THEN "Failed to load configuration: " \o e
                               ELSE e))]
    ELSE [proc EXCEPT !.pc = "done", !.exit = Some(1),
                      !.stderr = Append(@, "Error: " \o e)]

\* A variant in which ls writes back the registry it has loaded.
AfterLoad_ls_saves(cmd) ==
    CASE IsMutation(cmd) -> "mutate"
      [] cmd.fn = "ls" -> "save"
      [] cmd.fn = "wled_devices" -> "list"
      [] cmd.fn \in {"status", "wled_status"} -> "sweep"
      [] IsDeviceCommand(cmd) -> "resolve"

\* A variant in which wled_devices writes back the registry it has loaded.
AfterLoad_tool_saves(cmd) ==
    CASE IsMutation(cmd) -> "mutate"
      [] cmd.fn = "ls" -> "list"
      [] cmd.fn = "wled_devices" -> "save"
      [] cmd.fn \in {"status", "wled_status"} -> "sweep"
      [] IsDeviceCommand(cmd) -> "resolve"

\* The statement that follows Config::load()? in each command.
AfterLoad(cmd) ==
    CASE IsMutation(cmd) -> "mutate"
      [] cmd.fn \in {"ls", "wled_devices"} -> "list"
      [] cmd.fn \in {"status", "wled_status"} -> "sweep"
      [] IsDeviceCommand(cmd) -> "resolve"

\* Cli::parse() of a new process.
Invoke(p, cmd) ==
    /\ inv[p].pc \in {"idle", "done"}
    /\ started < MaxInvocations
    /\ started' = started + 1
    /\ inv' = [inv EXCEPT ![p] = [NotStarted EXCEPT !.pc = "load",
                                                    !.cmd = cmd]]
    /\ UNCHANGED file
    /\ UNCHANGED regVars

\* A variant in which the server loads the Config once, when it starts on
\* the fresh home directory, and its tools use that Config.
Load_server_keeps_config(p) ==
    /\ inv[p].pc = "load"
    /\ LET r == IF IsTool(inv[p].cmd) THEN Ok(new) ELSE load(file)
       IN  inv' = [inv EXCEPT ![p] =
                     IF r.ok
                     THEN [@ EXCEPT !.pc = AfterLoad(inv[p].cmd),
                                    !.config = r.val]
                     ELSE Fail(@, r.val)]
    /\ UNCHANGED <<file, started>>
    /\ UNCHANGED regVars

\* let mut config = Config::load()?;
Load(p) ==
    /\ inv[p].pc = "load"
    /\ LET r == load(file)
       IN  inv' = [inv EXCEPT ![p] =
                     IF r.ok
                     THEN [@ EXCEPT !.pc = AfterLoad(inv[p].cmd),
                                    !.config = r.val]
                     ELSE Fail(@, r.val)]
    /\ UNCHANGED <<file, started>>
    /\ UNCHANGED regVars

\* fs::read_to_string fails.
LoadIoError(p) ==
    /\ inv[p].pc = "load"
    /\ file # None
    /\ inv' = [inv EXCEPT ![p] = Fail(@, IoError)]
    /\ UNCHANGED <<file, started>>
    /\ UNCHANGED regVars

\* config.add_device(..); config.remove_device(..)?; config.set_default(..)?
Mutate(p) ==
    /\ inv[p].pc = "mutate"
    /\ LET cmd == inv[p].cmd
           outcomes ==
             CASE cmd.fn = "add" ->
                    {[config |-> add_device(inv[p].config, cmd.name, cmd.ip),
                      result |-> Ok(Unit)]}
               [] cmd.fn = "delete" ->
                    remove_device(inv[p].config, cmd.name)
               [] cmd.fn = "set-default" ->
                    {set_default(inv[p].config, cmd.name)}
       IN  \E o \in outcomes :
             inv' = [inv EXCEPT ![p] =
                       IF o.result.ok
                       THEN [@ EXCEPT !.pc = "save", !.config = o.config]
                       ELSE Fail([@ EXCEPT !.config = o.config],
                                 o.result.val)]
    /\ UNCHANGED <<file, started>>
    /\ UNCHANGED regVars

\* fs::write writes at offset 0 of the file it has just truncated.  When
\* another process has written more since, the rest of that content stays
\* behind the new one, cut at an arbitrary byte.
Overlay(content, f) ==
    IF f = None \/ Len(f[1]) <= Len(content)
    THEN content
    ELSE content \o <<TornLine>> \o SubSeq(f[1], Len(content) + 2, Len(f[1]))

\* config.save(): create_dir_all, to_string_pretty, then File::create inside
\* fs::write, which creates the file or truncates it.
SaveOpen(p) ==
    /\ inv[p].pc = "save"
    /\ file' = Some(<<>>)
    /\ inv' = [inv EXCEPT ![p].pc = "write"]
    /\ UNCHANGED started
    /\ UNCHANGED regVars

\* config.save()? returning Ok: write_all inside fs::write has finished.
Save(p) ==
    /\ inv[p].pc = "write"
    /\ \E content \in to_string_pretty(inv[p].config) :
         file' = Some(Overlay(content, file))
    /\ inv' = [inv EXCEPT ![p].pc = "report"]
    /\ UNCHANGED started
    /\ UNCHANGED regVars

\* A variant in which the result of save() is dropped.
SaveIoError_ignored(p) ==
    /\ \/ /\ inv[p].pc = "save"
          /\ UNCHANGED file
       \/ /\ inv[p].pc = "write"
          /\ \E content \in to_string_pretty(inv[p].config) :
               \E part \in Partial(content) :
                 file' = Some(Overlay(part, file))
    /\ inv' = [inv EXCEPT ![p].pc = "report"]
    /\ UNCHANGED started
    /\ UNCHANGED regVars

\* config.save()? returning Err: create_dir_all or the open failed (file
\* untouched), or the write failed after the truncation.
SaveIoError(p) ==
    /\ \/ /\ inv[p].pc = "save"
          /\ UNCHANGED file
       \/ /\ inv[p].pc = "write"
          /\ \E content \in to_string_pretty(inv[p].config) :
               \E part \in Partial(content) :
                 file' = Some(Overlay(part, file))
    /\ inv' = [inv EXCEPT ![p] = Fail(@, IoError)]
    /\ UNCHANGED started
    /\ UNCHANGED regVars

\* What the command prints on success.
SuccessOutput(proc) ==
    LET cmd == proc.cmd
    IN  CASE cmd.fn = "add" ->
               <<"Added device '" \o cmd.name \o "' with IP " \o cmd.ip>>
               \o (IF Cardinality(DOMAIN proc.config.devices) = 1
                   THEN <<"Set '" \o cmd.name \o "' as the default device">>
                   ELSE <<>>)
          [] cmd.fn = "delete" ->
               <<"Deleted device '" \o cmd.name \o "'">>
          [] cmd.fn = "set-default" ->
               <<"Set '" \o cmd.name \o "' as the default device">>
          [] cmd.fn \in {"on", "wled_on"} ->
               <<"Turned on device at " \o proc.ip>>
          [] cmd.fn \in {"off", "wled_off"} ->
               <<"Turned off device at " \o proc.ip>>
          [] IsBrightness(cmd) ->
               <<"Set brightness to " \o ToString(cmd.value)
                   \o " for device at " \o proc.ip>>

\* The text of the success result of a tool.
ToolSuccessText(cmd) ==
    CASE cmd.fn = "wled_on" -> "Device turned on successfully"
      [] cmd.fn = "wled_off" -> "Device turned off successfully"
      [] cmd.fn = "wled_brightness" ->
           "Device brightness set to " \o ToString(cmd.value)
               \o " successfully"

\* The println! calls after the save or after flush_state, then Ok(()):
\* exit code 0, or the success result of the tool.
Report(p) ==
    /\ inv[p].pc = "report"
    /\ inv' = [inv EXCEPT ![p] =
                 IF IsTool(inv[p].cmd)
                 THEN [@ EXCEPT !.pc = "done",
                                !.stdout = @ \o SuccessOutput(inv[p]),
                                !.reply =
                                  Some(ToolSuccess(
                                         ToolSuccessText(inv[p].cmd)))]
                 ELSE [@ EXCEPT !.pc = "done",
                                !.exit = Some(0),
                                !.stdout = @ \o SuccessOutput(inv[p])]]
    /\ UNCHANGED <<file, started>>
    /\ UNCHANGED regVars

RECURSIVE Concat(_)
\* The concatenation of the strings of a sequence.
Concat(strings) ==
    IF strings = <<>> THEN "" ELSE Head(strings) \o Concat(Tail(strings))

\* A variant that marks the first entry it lists instead of the default.
Ls_marks_first(p) ==
    /\ inv[p].pc = "list"
    /\ LET c == inv[p].config
           line(o, i) == "  " \o o[i] \o " - " \o c.devices[o[i]]
                         \o (IF i = 1 THEN " (default)" ELSE "")
       IN  \E o \in Orderings(DOMAIN c.devices) :
             inv' = [inv EXCEPT ![p] =
                       IF IsTool(inv[p].cmd)
                       THEN [@ EXCEPT !.pc = "done",
                                      !.reply =
                                        Some(ToolSuccess(
                                          IF DOMAIN c.devices = {}
                                          THEN "No devices saved"
                                          ELSE "Saved devices:\n"
                                               \o Concat([i \in 1..Len(o) |->
                                                    line(o, i) \o "\n"])))]
                       ELSE [@ EXCEPT !.pc = "done",
                                      !.exit = Some(0),
                                      !.stdout =
                                        IF DOMAIN c.devices = {}
                                        THEN <<"No devices saved">>
                                        ELSE <<"Saved devices:">>
                                             \o [i \in 1..Len(o) |->
                                                   line(o, i)]]]
    /\ UNCHANGED <<file, started>>
    /\ UNCHANGED regVars

\* Commands::Ls and wled_devices: one line per entry, in the iteration order
\* of the HashMap; printed, or joined into the text of the result.
Ls(p) ==
    /\ inv[p].pc = "list"
    /\ LET c == inv[p].config
           line(n) == "  " \o n \o " - " \o c.devices[n]
                      \o (IF c.default_device = Some(n)
                          THEN " (default)" ELSE "")
       IN  \E o \in Orderings(DOMAIN c.devices) :
             inv' = [inv EXCEPT ![p] =
                       IF IsTool(inv[p].cmd)
                       THEN [@ EXCEPT !.pc = "done",
                                      !.reply =
                                        Some(ToolSuccess(
                                          IF DOMAIN c.devices = {}
                                          THEN "No devices saved"
                                          ELSE "Saved devices:\n"
                                               \o Concat([i \in 1..Len(o) |->
                                                    line(o[i]) \o "\n"])))]
                       ELSE [@ EXCEPT !.pc = "done",
                                      !.exit = Some(0),
                                      !.stdout =
                                        IF DOMAIN c.devices = {}
                                        THEN <<"No devices saved">>
                                        ELSE <<"Saved devices:">>
                                             \o [i \in 1..Len(o) |->
                                                   line(o[i])]]]
    /\ UNCHANGED <<file, started>>
    /\ UNCHANGED regVars

\* Commands::Status and wled_status up to the loop: the early return for
\* an empty map, or the heading.
StatusBegin(p) ==
    /\ inv[p].pc = "sweep"
    /\ LET c == inv[p].config
       IN  inv' = [inv EXCEPT ![p] =
                     IF DOMAIN c.devices = {}
                     THEN IF IsTool(inv[p].cmd)
                          THEN [@ EXCEPT !.pc = "done",
                                         !.reply =
                                           Some(ToolSuccess(
                                                  "No devices saved"))]
                          ELSE [@ EXCEPT !.pc = "done",
                                         !.exit = Some(0),
                                         !.stdout = <<"No devices saved">>]
                     ELSE IF IsTool(inv[p].cmd)
                          THEN [@ EXCEPT !.pc = "check",
                                         !.todo = DOMAIN c.devices,
                                         !.output =
                                           <<"Checking status of all devices:\n\n">>]
                          ELSE [@ EXCEPT !.pc = "check",
                                         !.todo = DOMAIN c.devices,
                                         !.stdout =
                                           <<"Checking status of all devices...",
                                             "">>]]
    /\ UNCHANGED <<file, started>>
    /\ UNCHANGED regVars

\* A variant that takes a device without a power field to be off.
DeviceStatus_unknown_is_off(answer) ==
    IF ~answer.ok
    THEN "UNREACHABLE"
    ELSE IF answer.val # None /\ answer.val[1].on = Some(TRUE)
    THEN "ON"
    ELSE "OFF"

\* The result of get_device_status once the client exists: answer is
\* Err(..) or Ok(wled.state) of wled.get_state_from_wled().
DeviceStatus(answer) ==
    IF ~answer.ok
    THEN "UNREACHABLE"
    ELSE IF answer.val # None /\ answer.val[1].on = Some(FALSE)
    THEN "OFF"
    ELSE "ON"

\* format!("  {name} ({ip}){default_marker}: ")
StatusLabel(c, n) ==
    "  " \o n \o " (" \o c.devices[n] \o ")"
    \o (IF c.default_device = Some(n) THEN " (default)" ELSE "")
    \o ": "

\* What wled.get_state_from_wled() can return: an error, or wled.state.
Answers ==
    {Err(DeviceError)}
    \cup {Ok(st) : st \in {None} \cup {Some(d) : d \in DeviceStates}}

\* The answers that differ in what get_device_status reads: state.on.
StatusAnswers ==
    {a \in Answers : a.ok /\ a.val # None => a.val[1].bri = None}

\* A variant that leaves the loop at the first unreachable device.
StatusCheck_stop_at_unreachable(p) ==
    /\ inv[p].pc = "check"
    /\ \E n \in inv[p].todo :
         LET c == inv[p].config
             ip == c.devices[n]
             checked(proc, status) ==
                 [proc EXCEPT
                    !.todo = IF status = "UNREACHABLE" THEN {} ELSE @ \ {n},
                    !.all_reachable = @ /\ status # "UNREACHABLE",
                    !.output = IF IsTool(proc.cmd)
                               THEN Append(@, StatusLabel(c, n) \o status
                                                \o "\n")
                               ELSE @,
                    !.stdout = IF IsTool(proc.cmd)
                               THEN @
                               ELSE Append(@, StatusLabel(c, n) \o status)]
             sent(answer) ==
                 [inv[p] EXCEPT !.http =
                    Append(@, [method |-> "GET", addr |-> ip,
                               body |-> None, resp |-> answer])]
         IN  IF ~UrlOk(ip)
             THEN inv' = [inv EXCEPT ![p] = checked(inv[p], "UNREACHABLE")]
             ELSE \E answer \in StatusAnswers :
                    inv' = [inv EXCEPT ![p] =
                              checked(sent(answer), DeviceStatus(answer))]
    /\ UNCHANGED <<file, started>>
    /\ UNCHANGED regVars

\* One iteration of the loop over config.devices: get_device_status(ip) and
\* the line of the entry.
StatusCheck(p) ==
    /\ inv[p].pc = "check"
    /\ \E n \in inv[p].todo :
         LET c == inv[p].config
             ip == c.devices[n]
             checked(proc, status) ==
                 [proc EXCEPT
                    !.todo = @ \ {n},
                    !.all_reachable = @ /\ status # "UNREACHABLE",
                    !.output = IF IsTool(proc.cmd)
                               THEN Append(@, StatusLabel(c, n) \o status
                                                \o "\n")
                               ELSE @,
                    !.stdout = IF IsTool(proc.cmd)
                               THEN @
                               ELSE Append(@, StatusLabel(c, n) \o status)]
             sent(answer) ==
                 [inv[p] EXCEPT !.http =
                    Append(@, [method |-> "GET", addr |-> ip,
                               body |-> None, resp |-> answer])]
         IN  IF ~UrlOk(ip)
             THEN inv' = [inv EXCEPT ![p] = checked(inv[p], "UNREACHABLE")]
             ELSE \E answer \in StatusAnswers :
                    inv' = [inv EXCEPT ![p] =
                              checked(sent(answer), DeviceStatus(answer))]
    /\ UNCHANGED <<file, started>>
    /\ UNCHANGED regVars

\* After the loop: std::process::exit(1) when a device was unreachable,
\* else Ok(()); wled_status appends its warning and returns the text.
StatusEnd(p) ==
    /\ inv[p].pc = "check"
    /\ inv[p].todo = {}
    /\ inv' = [inv EXCEPT ![p] =
                 IF IsTool(inv[p].cmd)
                 THEN [@ EXCEPT !.pc = "done",
                                !.output =
                                  IF inv[p].all_reachable
                                  THEN @
                                  ELSE Append(@, "\nWarning: Some devices are unreachable"),
                                !.reply =
                                  Some(ToolSuccess(
                                    Concat(IF inv[p].all_reachable
                                           THEN inv[p].output
                                           ELSE Append(inv[p].output,
                                                  "\nWarning: Some devices are unreachable"))))]
                 ELSE [@ EXCEPT !.pc = "done",
                                !.exit = IF inv[p].all_reachable
                                         THEN Some(0) ELSE Some(1)]]
    /\ UNCHANGED <<file, started>>
    /\ UNCHANGED regVars

\* A variant that contacts the device at the WLED access point address
\* when no device can be resolved.
ResolveDevice_fallback(p) ==
    /\ inv[p].pc = "resolve"
    /\ LET r == get_device_ip(inv[p].config, inv[p].cmd.device)
           ip == IF r.ok THEN r.val ELSE "4.3.2.1"
       IN  inv' = [inv EXCEPT ![p] =
                     IF UrlOk(ip)
                     THEN [@ EXCEPT !.pc = "get", !.ip = ip]
                     ELSE Fail(@, UrlError)]
    /\ UNCHANGED <<file, started>>
    /\ UNCHANGED regVars

\* let ip = config.get_device_ip(device)?; Url::parse(..)?;
\* Wled::try_from_url(&url)?
ResolveDevice(p) ==
    /\ inv[p].pc = "resolve"
    /\ LET r == get_device_ip(inv[p].config, inv[p].cmd.device)
       IN  inv' = [inv EXCEPT ![p] =
                     IF ~r.ok
                     THEN Fail(@, r.val)
                     ELSE IF UrlOk(r.val)
                     THEN [@ EXCEPT !.pc = "get", !.ip = r.val]
                     ELSE Fail([@ EXCEPT !.ip = r.val], UrlError)]
    /\ UNCHANGED <<file, started>>
    /\ UNCHANGED regVars

\* A variant that goes on to the update when the retrieval has failed.
GetState_ignore_error(p) ==
    /\ inv[p].pc = "get"
    /\ \E answer \in Answers :
         LET sent == [inv[p] EXCEPT !.http =
                        Append(@, [method |-> "GET", addr |-> inv[p].ip,
                                   body |-> None, resp |-> answer])]
         IN  inv' = [inv EXCEPT ![p] =
                       IF answer.ok
                       THEN [sent EXCEPT !.pc = "set", !.wled = answer.val]
                       ELSE [sent EXCEPT !.pc = "set"]]
    /\ UNCHANGED <<file, started>>
    /\ UNCHANGED regVars

\* wled.get_state_from_wled()?: a request to the device, which answers
\* with its state or not at all.
GetState(p) ==
    /\ inv[p].pc = "get"
    /\ \E answer \in Answers :
         LET sent == [inv[p] EXCEPT !.http =
                        Append(@, [method |-> "GET", addr |-> inv[p].ip,
                                   body |-> None, resp |-> answer])]
         IN  inv' = [inv EXCEPT ![p] =
                       IF answer.ok
                       THEN [sent EXCEPT !.pc = "set", !.wled = answer.val]
                       ELSE Fail(sent, answer.val)]
    /\ UNCHANGED <<file, started>>
    /\ UNCHANGED regVars

\* A variant that builds the state to send from the default State and not
\* from the retrieved one.
Updated_from_default(cmd, wled) ==
    IF IsPower(cmd)
    THEN [DefaultState EXCEPT !.on = Some(cmd.fn \in {"on", "wled_on"})]
    ELSE [DefaultState EXCEPT !.bri = Some(cmd.value)]

\* A variant in which the tools build the state to send from the default
\* State instead of the retrieved one.
Updated_tool_from_default(cmd, wled) ==
    LET st == IF wled = None \/ IsTool(cmd) THEN DefaultState ELSE wled[1]
    IN  IF IsPower(cmd)
        THEN [st EXCEPT !.on = Some(cmd.fn \in {"on", "wled_on"})]
        ELSE [st EXCEPT !.bri = Some(cmd.value)]

\* The update of wled.state made by the command.
Updated(cmd, wled) ==
    LET st == IF wled = None THEN DefaultState ELSE wled[1]
    IN  IF IsPower(cmd)
        THEN [st EXCEPT !.on = Some(cmd.fn \in {"on", "wled_on"})]
        ELSE [st EXCEPT !.bri = Some(cmd.value)]

\* The update of wled.state, then wled.flush_state()?: a second request.
FlushState(p) ==
    /\ inv[p].pc = "set"
    /\ \E answer \in {Ok(Unit), Err(DeviceError)} :
         LET st == Updated(inv[p].cmd, inv[p].wled)
             sent == [inv[p] EXCEPT !.wled = Some(st),
                               !.http =
                                 Append(@, [method |-> "POST",
                                            addr |-> inv[p].ip,
                                            body |-> Some(st),
                                            resp |-> answer])]
         IN  inv' = [inv EXCEPT ![p] =
                       IF answer.ok
                       THEN [sent EXCEPT !.pc = "report"]
                       ELSE Fail(sent, answer.val)]
    /\ UNCHANGED <<file, started>>
    /\ UNCHANGED regVars

Init ==
    /\ config = new
    /\ call = [fn |-> "new"]
    /\ result = Unit
    /\ calls = <<>>
    /\ file = None
    /\ inv = CliIdle
    /\ started = 0

Next ==
    \/ \E name \in Names, ip \in Addrs : Add(name, ip)
    \/ \E name \in Names : Remove(name)
    \/ \E name \in Names : SetDefault(name)
    \/ \E id \in Identifiers : Resolve(Some(id))
    \/ Resolve(None)

Spec == Init /\ [][Next]_vars

(***************************************************************************)
(* get_device_ip on any Config that load() can return.                     *)
(***************************************************************************)
InitLoaded ==
    /\ config \in Configs
    /\ call = [fn |-> "load"]
    /\ result = Unit
    /\ calls = <<>>
    /\ file = None
    /\ inv = CliIdle
    /\ started = 0

NextLoaded ==
    \/ \E id \in Identifiers : Resolve(Some(id))
    \/ Resolve(None)

SpecLoaded == InitLoaded /\ [][NextLoaded]_vars

NextCli ==
    \/ \E p \in Procs, cmd \in Commands : Invoke(p, cmd)
    \/ \E p \in Procs : Load(p)
    \/ \E p \in Procs : LoadIoError(p)
    \/ \E p \in Procs : Mutate(p)
    \/ \E p \in Procs : SaveOpen(p)
    \/ \E p \in Procs : Save(p)
    \/ \E p \in Procs : SaveIoError(p)
    \/ \E p \in Procs : Report(p)

SpecCli == Init /\ [][NextCli]_vars

(***************************************************************************)
(* One command or tool call, of any kind, on any content of the file: no   *)
(* file, the file written for some Config, or a file that does not parse.  *)
(***************************************************************************)
\* A Config with an address no URL can be made of: the outcome of
\* add living_room "" and add bedroom 192.168.1.100.
EmptyAddress ==
    [devices |-> [n \in {NamePool[1], NamePool[2]} |->
                    IF n = NamePool[1] THEN "" ELSE AddrPool[1]],
     default_device |-> Some(NamePool[1])]

Files ==
    {None, Some(<<>>), Some(<<TableHeader, TornLine>>)}
    \cup {Some(CHOOSE content \in to_string_pretty(c) : TRUE) :
            c \in Configs \cup {EmptyAddress}}

InitOne ==
    /\ config = new
    /\ call = [fn |-> "new"]
    /\ result = Unit
    /\ calls = <<>>
    /\ file \in Files
    /\ inv = CliIdle
    /\ started = 0

\* Cli::parse() of the process, or the dispatch of the tool call.
InvokeOne(cmd) ==
    /\ started = 0
    /\ started' = 1
    /\ inv' = [inv EXCEPT ![1] = [NotStarted EXCEPT !.pc = "load",
                                                    !.cmd = cmd]]
    /\ UNCHANGED file
    /\ UNCHANGED regVars

NextOne ==
    \/ \E cmd \in Commands \cup ReadCommands \cup ToolCalls \cup ReadTools :
         InvokeOne(cmd)
    \/ \E p \in Procs : Load(p)
    \/ \E p \in Procs : LoadIoError(p)
    \/ \E p \in Procs : Mutate(p)
    \/ \E p \in Procs : SaveOpen(p)
    \/ \E p \in Procs : Save(p)
    \/ \E p \in Procs : SaveIoError(p)
    \/ \E p \in Procs : Report(p)
    \/ \E p \in Procs : Ls(p)
    \/ \E p \in Procs : StatusBegin(p)
    \/ \E p \in Procs : StatusCheck(p)
    \/ \E p \in Procs : StatusEnd(p)
    \/ \E p \in Procs : ResolveDevice(p)
    \/ \E p \in Procs : GetState(p)
    \/ \E p \in Procs : FlushState(p)

SpecOne == InitOne /\ [][NextOne]_vars

(***************************************************************************)
(* An on, off or brightness command and the tool call with the same        *)
(* arguments, both on the same file: process 1 runs the command, process 2 *)
(* the tool call.  Neither writes the file, so the steps of the second are *)
(* taken after the first has ended.                                        *)
(***************************************************************************)
DeviceCommands == {cmd \in ReadCommands : IsDeviceCommand(cmd)}

\* wled_on, wled_off, wled_brightness with the parameters of the command.
ToolOf(cmd) == [cmd EXCEPT !.fn = "wled_" \o cmd.fn]

InvokePair(cmd) ==
    /\ started = 0
    /\ started' = 2
    /\ inv' = [inv EXCEPT ![1] = [NotStarted EXCEPT !.pc = "load",
                                                    !.cmd = cmd],
                          ![2] = [NotStarted EXCEPT !.pc = "load",
                                                    !.cmd = ToolOf(cmd)]]
    /\ UNCHANGED file
    /\ UNCHANGED regVars

NextPair ==
    \/ \E cmd \in DeviceCommands : InvokePair(cmd)
    \/ \E p \in {1, 2} :
         /\ p = 2 => inv[1].pc = "done"
         /\ \/ Load(p)
            \/ ResolveDevice(p)
            \/ GetState(p)
            \/ FlushState(p)
            \/ Report(p)

SpecPair == InitOne /\ [][NextPair]_vars

(***************************************************************************)
(* The running server: up to NumProcs tool calls at a time, each on its    *)
(* own task or blocking thread, their steps interleaved, while add         *)
(* commands run from a shell write the file.                               *)
(***************************************************************************)
\* The five tools, the device ones on the default device.
ServerCalls ==
    ReadTools
    \cup {c \in ToolCalls : c.device = None /\ (IsBrightness(c) => c.value = 255)}

\* A command that writes the file while the server runs.
ShellCommands == {[fn |-> "add", name |-> NamePool[2], ip |-> AddrPool[1]]}

\* The file when the server starts: absent, or written by
\* add living_room 192.168.1.100.
ServerFiles ==
    {None}
    \cup {Some(content) :
            content \in to_string_pretty(add_device(new, NamePool[1],
                                                    AddrPool[1]))}

InitServer ==
    /\ config = new
    /\ call = [fn |-> "new"]
    /\ result = Unit
    /\ calls = <<>>
    /\ file \in ServerFiles
    /\ inv = CliIdle
    /\ started = 0

\* The server dispatches a tool call, or the shell starts a command.
InvokeServer(p, cmd) ==
    /\ inv[p].pc = "idle"
    /\ inv' = [inv EXCEPT ![p] = [NotStarted EXCEPT !.pc = "load",
                                                    !.cmd = cmd]]
    /\ UNCHANGED <<file, started>>
    /\ UNCHANGED regVars

NextServer ==
    \/ \E p \in Procs, cmd \in ServerCalls \cup ShellCommands :
         InvokeServer(p, cmd)
    \/ \E p \in Procs : Load(p)
    \/ \E p \in Procs : Mutate(p)
    \/ \E p \in Procs : SaveOpen(p)
    \/ \E p \in Procs : Save(p)
    \/ \E p \in Procs : Report(p)
    \/ \E p \in Procs : Ls(p)
    \/ \E p \in Procs : StatusBegin(p)
    \/ \E p \in Procs : StatusCheck(p)
    \/ \E p \in Procs : StatusEnd(p)
    \/ \E p \in Procs : ResolveDevice(p)
    \/ \E p \in Procs : GetState(p)
    \/ \E p \in Procs : FlushState(p)

SpecServer == InitServer /\ [][NextServer]_vars

(***************************************************************************)
(* add commands run one after the other from a fresh home directory, the   *)
(* name being any String the shell can pass, the empty one included.       *)
(***************************************************************************)
AddCommands == [fn : {"add"}, name : Names \cup {""}, ip : Addrs]

InvokeAdd(cmd) ==
    /\ inv[1].pc \in {"idle", "done"}
    /\ started < MaxInvocations
    /\ started' = started + 1
    /\ inv' = [inv EXCEPT ![1] = [NotStarted EXCEPT !.pc = "load",
                                                    !.cmd = cmd]]
    /\ UNCHANGED file
    /\ UNCHANGED regVars

NextAdd ==
    \/ \E cmd \in AddCommands : InvokeAdd(cmd)
    \/ \E p \in Procs : Load(p)
    \/ \E p \in Procs : Mutate(p)
    \/ \E p \in Procs : SaveOpen(p)
    \/ \E p \in Procs : Save(p)
    \/ \E p \in Procs : Report(p)

SpecAdd == Init /\ [][NextAdd]_vars

(***************************************************************************)
(* Two processes that run the same delete command on the same file, up to  *)
(* the return of remove_device: two registries with equal devices and      *)
(* default_device that perform the same remove.                            *)
(***************************************************************************)
DeleteCommands == [fn : {"delete"}, name : Names]

InvokeTwin(cmd) ==
    /\ started = 0
    /\ started' = 2
    /\ inv' = [inv EXCEPT ![1] = [NotStarted EXCEPT !.pc = "load",
                                                    !.cmd = cmd],
                          ![2] = [NotStarted EXCEPT !.pc = "load",
                                                    !.cmd = cmd]]
    /\ UNCHANGED file
    /\ UNCHANGED regVars

NextTwin ==
    \/ \E cmd \in DeleteCommands : InvokeTwin(cmd)
    \/ \E p \in {1, 2} : Load(p)
    \/ \E p \in {1, 2} : Mutate(p)

SpecTwin == InitOne /\ [][NextTwin]_vars

(***************************************************************************)
(* Concurrent add, delete and set-default invocations whose loads and      *)
(* saves interleave and whose I/O does not fail.                           *)
(***************************************************************************)
NextRace ==
    \/ \E p \in Procs, cmd \in Commands : Invoke(p, cmd)
    \/ \E p \in Procs : Load(p)
    \/ \E p \in Procs : Mutate(p)
    \/ \E p \in Procs : SaveOpen(p)
    \/ \E p \in Procs : Save(p)
    \/ \E p \in Procs : Report(p)

SpecRace == Init /\ [][NextRace]_vars

(***************************************************************************)
(* A session: commands run one after the other from a fresh home           *)
(* directory, each in a new process, with no I/O failure.  calls is the    *)
(* sequence of add, delete and set-default commands run so far; ls and     *)
(* wled_devices may run at any point between them.                         *)
(***************************************************************************)
SessionCommands == Commands \cup {[fn |-> "ls"], [fn |-> "wled_devices"]}

\* The shell starts the next command when the previous one has ended; a
\* tool call is dispatched by the running server.
InvokeSession(cmd) ==
    /\ inv[1].pc \in {"idle", "done"}
    /\ IsMutation(cmd) => started < MaxInvocations
    /\ started' = IF IsMutation(cmd) THEN started + 1 ELSE started
    /\ calls' = IF IsMutation(cmd) THEN Append(calls, cmd) ELSE calls
    /\ inv' = [inv EXCEPT ![1] = [NotStarted EXCEPT !.pc = "load",
                                                    !.cmd = cmd]]
    /\ UNCHANGED <<file, config, call, result>>

NextSession ==
    \/ \E cmd \in SessionCommands : InvokeSession(cmd)
    \/ \E p \in Procs : Load(p)
    \/ \E p \in Procs : Mutate(p)
    \/ \E p \in Procs : SaveOpen(p)
    \/ \E p \in Procs : Save(p)
    \/ \E p \in Procs : Report(p)
    \/ \E p \in Procs : Ls(p)

SpecSession == Init /\ [][NextSession]_vars

(***************************************************************************)
(* save() of any Config followed by load(), with no other process.         *)
(***************************************************************************)
InitRoundTrip ==
    /\ config \in Configs
    /\ call = [fn |-> "new"]
    /\ result = Unit
    /\ calls = <<>>
    /\ file = None
    /\ inv = CliIdle
    /\ started = 0

\* Config::save
SaveConfig ==
    /\ call.fn = "new"
    /\ \E content \in to_string_pretty(config) : file' = Some(content)
    /\ call' = [fn |-> "save"]
    /\ result' = Ok(Unit)
    /\ UNCHANGED <<config, calls, inv, started>>

\* Config::load; config keeps the value that was saved.
LoadConfig ==
    /\ call.fn = "save"
    /\ result' = load(file)
    /\ call' = [fn |-> "load"]
    /\ UNCHANGED <<config, calls, file, inv, started>>

NextRoundTrip == SaveConfig \/ LoadConfig

SpecRoundTrip == InitRoundTrip /\ [][NextRoundTrip]_vars

(***************************************************************************)
(* Properties of the registry.                                             *)
(***************************************************************************)
IsAdd(e) == e.call.fn = "add_device"
LastCall == calls[Len(calls)]
\* The default names a key of devices.
DefaultIsKey(c) ==
    /\ c.default_device # None
    /\ c.default_device[1] \in DOMAIN c.devices

\* C1: in every registry reachable from Config::new() through add_device,
\* remove_device and set_default calls, failing ones included, the default
\* is unset or is a key of devices.
C1_DefaultUnsetOrKey ==
    config.default_device = None \/ DefaultIsKey(config)

\* A default that survived a failed call on a registry of two devices.
C1_Witness ==
    /\ Len(calls) > 0
    /\ LastCall.call.fn \in {"remove_device", "set_default"}
    /\ ~LastCall.result.ok
    /\ DefaultIsKey(config)
    /\ Cardinality(DOMAIN config.devices) = 2

\* C2: get_device_ip(Some(s)) returns devices[s] when s is a key, also
\* when s is itself an address, and s unchanged when it is not a key; it
\* never fails.
C2_ExplicitIdentifier ==
    (call.fn = "get_device_ip" /\ call.name_or_ip # None) =>
        LET s == call.name_or_ip[1]
        IN  /\ result.ok
            /\ s \in DOMAIN config.devices => result.val = config.devices[s]
            /\ s \notin DOMAIN config.devices => result.val = s

\* A registered name that is also an address resolved to another address.
C2_Witness ==
    /\ call.fn = "get_device_ip"
    /\ call.name_or_ip # None
    /\ call.name_or_ip[1] \in DOMAIN config.devices \cap Addrs
    /\ result = Ok(config.devices[call.name_or_ip[1]])
    /\ result.val # call.name_or_ip[1]

\* C3: get_device_ip(None) fails with NoDeviceSpecified when devices is
\* empty, when the default is unset and when the default is not a key of
\* devices.
C3_NoDeviceSpecified ==
    (/\ call.fn = "get_device_ip"
     /\ call.name_or_ip = None
     /\ \/ DOMAIN config.devices = {}
        \/ config.default_device = None
        \/ ~DefaultIsKey(config)) =>
        result = Err(NoDeviceSpecified)

\* The failure on a registry with devices and a dangling default.
C3_Witness ==
    /\ call.fn = "get_device_ip"
    /\ call.name_or_ip = None
    /\ DOMAIN config.devices # {}
    /\ config.default_device # None
    /\ config.default_device[1] \notin DOMAIN config.devices
    /\ result = Err(NoDeviceSpecified)

\* C4: when the default is a key of devices, get_device_ip(None) returns
\* devices[default]; right after a successful set_default(n) it returns
\* devices[n].
C4_DefaultResolves ==
    (call.fn = "get_device_ip" /\ call.name_or_ip = None) =>
        /\ DefaultIsKey(config) =>
             result = Ok(config.devices[config.default_device[1]])
        /\ (/\ Len(calls) > 0
            /\ LastCall.call.fn = "set_default"
            /\ LastCall.result.ok) =>
             result = Ok(config.devices[LastCall.call.name])

\* The default was moved off the first device and then resolved.
C4_Witness ==
    /\ call.fn = "get_device_ip"
    /\ call.name_or_ip = None
    /\ Len(calls) > 1
    /\ LastCall.call.fn = "set_default"
    /\ LastCall.result.ok
    /\ LastCall.call.name # calls[1].call.name
    /\ result = Ok(config.devices[LastCall.call.name])
    /\ \E n \in DOMAIN config.devices : config.devices[n] # result.val

\* Only add_device calls so far, with pairwise distinct names.
DistinctAdds ==
    /\ \A i \in 1..Len(calls) : IsAdd(calls[i])
    /\ \A i, j \in 1..Len(calls) :
         i # j => calls[i].call.name # calls[j].call.name

\* C5: after any sequence of add_device calls with pairwise distinct names
\* on a new registry, the default is the name of the first call.
C5_FirstAddStaysDefault ==
    (Len(calls) > 0 /\ DistinctAdds) =>
        config.default_device = Some(calls[1].call.name)

C5_Witness ==
    /\ Len(calls) = 3
    /\ DistinctAdds
    /\ config.default_device = Some(calls[1].call.name)

\* The step is a call of add_device.
AddStep == calls' # calls /\ call'.fn = "add_device"
\* The step is a call of remove_device.
RemoveStep == calls' # calls /\ call'.fn = "remove_device"

C7_AddSetsDefaultIffSingle ==
    [][AddStep =>
        IF Cardinality(DOMAIN config'.devices) = 1
        THEN config'.default_device = Some(call'.name)
        ELSE config'.default_device = config.default_device]_vars

\* An add made the default after removes had emptied the registry, the
\* earlier default being another name.
C7_Witness ==
    /\ Len(calls) > 2
    /\ IsAdd(LastCall)
    /\ IsAdd(calls[1])
    /\ calls[Len(calls) - 1].call.fn = "remove_device"
    /\ calls[Len(calls) - 1].result.ok
    /\ calls[1].call.name # LastCall.call.name
    /\ DOMAIN config.devices = {LastCall.call.name}
    /\ config.default_device = Some(LastCall.call.name)

\* C8: removing the default from a registry of two or more devices leaves
\* a default that is a key of devices and is not the removed name; with
\* exactly two devices it is the remaining one.
C8_RemoveDefaultPromotes ==
    [][(/\ RemoveStep
        /\ call'.name \in DOMAIN config.devices
        /\ config.default_device = Some(call'.name)
        /\ Cardinality(DOMAIN config.devices) >= 2) =>
        /\ DefaultIsKey(config')
        /\ config'.default_device # Some(call'.name)
        /\ Cardinality(DOMAIN config.devices) = 2 =>
             DOMAIN config'.devices = {config'.default_device[1]}]_vars

\* Three devices were added and the first, the default, was removed.
C8_Witness ==
    /\ Len(calls) = 4
    /\ \A i \in 1..3 : IsAdd(calls[i])
    /\ LastCall.call.fn = "remove_device"
    /\ LastCall.call.name = calls[1].call.name
    /\ LastCall.result.ok
    /\ Cardinality(DOMAIN config.devices) = 2
    /\ DefaultIsKey(config)

\* C9: removing the only device leaves devices empty and the default
\* unset.
C9_RemoveLastEmpties ==
    [][(/\ RemoveStep
        /\ DOMAIN config.devices = {call'.name}) =>
        /\ result' = Ok(Unit)
        /\ config'.devices = EmptyMap
        /\ config'.default_device = None]_vars

\* Two devices were added and both removed, the default last.
C9_Witness ==
    /\ Len(calls) = 4
    /\ LastCall.call.fn = "remove_device"
    /\ LastCall.result.ok
    /\ calls[3].call.fn = "remove_device"
    /\ calls[3].result.ok
    /\ config = new

\* C11: removing a device that is not the default deletes that entry
\* only: the default and every other entry are unchanged.
C11_RemoveNonDefaultFrame ==
    [][(/\ RemoveStep
        /\ call'.name \in DOMAIN config.devices
        /\ config.default_device # Some(call'.name)) =>
        /\ result' = Ok(Unit)
        /\ config'.default_device = config.default_device
        /\ DOMAIN config'.devices = DOMAIN config.devices \ {call'.name}
        /\ \A n \in DOMAIN config'.devices :
             config'.devices[n] = config.devices[n]]_vars

\* The default was moved to another device and the first device was then
\* removed.
C11_Witness ==
    /\ Len(calls) = 4
    /\ LastCall.call.fn = "remove_device"
    /\ LastCall.result.ok
    /\ LastCall.call.name = calls[1].call.name
    /\ calls[3].call.fn = "set_default"
    /\ calls[3].result.ok
    /\ calls[3].call.name # LastCall.call.name
    /\ config.default_device = Some(calls[3].call.name)
    /\ DOMAIN config.devices = {calls[3].call.name}

\* The step is a call of set_default.
SetDefaultStep == calls' # calls /\ call'.fn = "set_default"

\* C12: set_default with a name that is a key of devices returns Ok, makes
\* that name the default and leaves devices unchanged.
C12_SetDefaultAssigns ==
    [][(SetDefaultStep /\ call'.name \in DOMAIN config.devices) =>
        /\ result' = Ok(Unit)
        /\ config'.default_device = Some(call'.name)
        /\ config'.devices = config.devices]_vars

\* The default was moved from the first device to the second of three.
C12_Witness ==
    /\ Len(calls) = 4
    /\ \A i \in 1..3 : IsAdd(calls[i])
    /\ LastCall.call.fn = "set_default"
    /\ LastCall.result.ok
    /\ LastCall.call.name = calls[2].call.name
    /\ config.default_device = Some(calls[2].call.name)
    /\ config.default_device # Some(calls[1].call.name)
    /\ Cardinality(DOMAIN config.devices) = 3

(***************************************************************************)
(* Properties of the commands.                                             *)
(***************************************************************************)
\* Process p takes the step.
StepOf(p) == inv'[p] # inv[p]

\* C10: remove_device with a name that is not a key returns the NotFound
\* error naming it and leaves the Config as it was; the delete command
\* then prints the error, exits with code 1 and has not written the file.
C10_DeleteUnknownName ==
    [][\A p \in Procs :
        (StepOf(p) /\ inv[p].cmd.fn = "delete") =>
            /\ inv[p].pc = "load" => file' = file
            /\ (/\ inv[p].pc = "mutate"
                /\ inv[p].cmd.name \notin DOMAIN inv[p].config.devices) =>
                 /\ inv'[p].config = inv[p].config
                 /\ inv'[p].pc = "done"
                 /\ inv'[p].exit = Some(1)
                 /\ inv'[p].stderr =
                      <<"Error: Device '" \o inv[p].cmd.name
                          \o "' not found">>
                 /\ inv'[p].stdout = <<>>
                 /\ file' = file]_vars

\* "delete bedroom" has failed on a registry that holds living_room only.
C10_Witness ==
    \E p \in Procs :
        /\ inv[p].pc = "done"
        /\ inv[p].cmd = [fn |-> "delete", name |-> "bedroom"]
        /\ inv[p].exit = Some(1)
        /\ inv[p].stderr = <<"Error: Device 'bedroom' not found">>
        /\ DOMAIN inv[p].config.devices = {"living_room"}
        /\ inv[p].config.default_device = Some("living_room")
        /\ load(file) = Ok(inv[p].config)

\* C13: set_default with a name that is not a key returns the NotFound
\* error naming it and leaves the Config as it was; the set-default
\* command then prints the error, exits with code 1 and has not written
\* the file.
C13_SetDefaultUnknownName ==
    [][\A p \in Procs :
        (StepOf(p) /\ inv[p].cmd.fn = "set-default") =>
            /\ inv[p].pc = "load" => file' = file
            /\ (/\ inv[p].pc = "mutate"
                /\ inv[p].cmd.name \notin DOMAIN inv[p].config.devices) =>
                 /\ inv'[p].config = inv[p].config
                 /\ inv'[p].pc = "done"
                 /\ inv'[p].exit = Some(1)
                 /\ inv'[p].stderr =
                      <<"Error: Device '" \o inv[p].cmd.name
                          \o "' not found">>
                 /\ inv'[p].stdout = <<>>
                 /\ file' = file]_vars

\* "set-default bedroom" has failed on a registry that holds living_room
\* only, which is still the default in the file.
C13_Witness ==
    \E p \in Procs :
        /\ inv[p].pc = "done"
        /\ inv[p].cmd = [fn |-> "set-default", name |-> "bedroom"]
        /\ inv[p].exit = Some(1)
        /\ inv[p].stderr = <<"Error: Device 'bedroom' not found">>
        /\ DOMAIN inv[p].config.devices = {"living_room"}
        /\ inv[p].config.default_device = Some("living_room")
        /\ load(file) = Ok(inv[p].config)

\* The file starts with a complete serialization of the Config c.
Written(f, c) ==
    /\ f # None
    /\ \E content \in to_string_pretty(c) :
         /\ Len(f[1]) >= Len(content)
         /\ SubSeq(f[1], 1, Len(content)) = content

\* C14: add, delete and set-default print their success message only after
\* save() has returned Ok, that is after the write of the new Config has
\* finished; when save() fails the command exits with code 1 and has
\* printed no success message.
C14_SavedBeforeSuccess ==
    [][\A p \in Procs :
        (StepOf(p) /\ inv[p].pc \notin {"idle", "done"}) =>
            /\ inv'[p].stdout # inv[p].stdout => inv[p].pc = "report"
            /\ inv'[p].exit = Some(0) => inv[p].pc = "report"
            /\ (inv'[p].pc = "report" /\ inv[p].pc # "report") =>
                 /\ inv[p].pc = "write"
                 /\ Written(file', inv[p].config)
            /\ (inv[p].pc \in {"save", "write"}
                /\ inv'[p].pc \notin {"write", "report"}) =>
                 /\ inv'[p].pc = "done"
                 /\ inv'[p].exit = Some(1)
                 /\ inv'[p].stdout = <<>>
                 /\ inv'[p].stderr # <<>>]_vars

\* One invocation has reported success and another has failed in save().
C14_Witness ==
    \E p, q \in Procs :
        /\ inv[p].pc = "done"
        /\ inv[p].exit = Some(0)
        /\ inv[p].stdout # <<>>
        /\ inv[q].pc = "done"
        /\ inv[q].exit = Some(1)
        /\ inv[q].stderr = <<"Error: " \o IoError>>
        /\ inv[q].stdout = <<>>
        /\ inv[q].cmd.fn \in {"add", "delete", "set-default"}
        /\ inv[q].config # new

\* C15: save() followed by load() returns a Config with the same devices
\* and the same default_device, for every Config, the empty one with no
\* default included.
C15_SaveLoadRoundTrip ==
    call.fn = "load" =>
        /\ result.ok
        /\ result.val.devices = config.devices
        /\ result.val.default_device = config.default_device

\* The empty registry with no default has been saved and loaded.
C15_Witness ==
    /\ call.fn = "load"
    /\ config = new
    /\ file = Some(<<TableHeader>>)
    /\ result = Ok(new)

\* C16: when the file does not exist, load succeeds with the empty Config
\* and does not create the file, and ls then prints "No devices saved" and
\* exits with code 0 (wled_devices returns that text as a success), the file
\* still absent.
C16_LoadWithoutFile ==
    [][\A p \in Procs :
         /\ (StepOf(p) /\ file = None /\ inv[p].pc = "load")
              => /\ inv'[p].pc = AfterLoad(inv[p].cmd)
                 /\ inv'[p].config = new
                 /\ file' = None
         /\ (StepOf(p) /\ file = None /\ inv[p].pc = "list")
              => /\ inv'[p].pc = "done"
                 /\ file' = None
                 /\ IF inv[p].cmd.fn = "ls"
                    THEN /\ inv'[p].exit = Some(0)
                         /\ inv'[p].stdout = <<"No devices saved">>
                         /\ inv'[p].stderr = <<>>
                    ELSE inv'[p].reply
                           = Some(ToolSuccess("No devices saved"))]_vars

C16_Witness ==
    /\ file = None
    /\ inv[1].cmd = [fn |-> "ls"]
    /\ inv[1].pc = "done"
    /\ inv[1].exit = Some(0)
    /\ inv[1].stdout = <<"No devices saved">>

\* The command of the process has failed: exit code 1, or an error result
\* of the tool.
Failed(proc) ==
    IF IsTool(proc.cmd)
    THEN proc.reply # None /\ proc.reply[1].is_error
    ELSE proc.exit = Some(1)

\* C17: when the file cannot be read or does not parse, the load step of
\* every command and tool ends it with a failure, with the file unchanged,
\* nothing printed, no Config loaded and no request sent to a device; a
\* command that has ended takes no further step.
C17_LoadFailureIsFatal ==
    [][\A p \in Procs :
         /\ (/\ StepOf(p)
             /\ inv[p].pc = "load"
             /\ \/ file # None /\ ~from_str(file[1]).ok
                \/ inv'[p] = Fail(inv[p], IoError))
              => /\ inv'[p].pc = "done"
                 /\ Failed(inv'[p])
                 /\ inv'[p].config = new
                 /\ inv'[p].stdout = <<>>
                 /\ inv'[p].http = <<>>
                 /\ file' = file
         /\ (StepOf(p) /\ inv[p].pc = "done") => started' # started]_vars

C17_Witness ==
    /\ file = Some(<<TableHeader, TornLine>>)
    /\ inv[1].cmd.fn = "add"
    /\ inv[1].pc = "done"
    /\ inv[1].exit = Some(1)
    /\ inv[1].stderr = <<"Error: " \o ParseError>>

\* The command of the process has failed with e as its message.
Surfaced(proc, e) ==
    IF IsTool(proc.cmd)
    THEN proc.reply = Some(ToolError(e))
    ELSE proc.exit = Some(1) /\ proc.stderr = <<"Error: " \o e>>

\* C20: in on, off and brightness, from the command line or as a tool, when
\* get_device_ip fails the command ends with that error and has sent no
\* request to a device; every request that is sent goes to the address
\* get_device_ip returned for the loaded Config and the device argument.
C20_ResolveBeforeDeviceCall ==
    [][\A p \in Procs :
         (StepOf(p) /\ IsDeviceCommand(inv[p].cmd))
           => LET r == get_device_ip(inv[p].config, inv[p].cmd.device)
              IN  /\ (inv[p].pc = "resolve" /\ ~r.ok)
                       => /\ inv'[p].pc = "done"
                          /\ Surfaced(inv'[p], NoDeviceSpecified)
                          /\ inv'[p].http = <<>>
                  /\ (inv'[p].http # inv[p].http)
                       => /\ inv[p].pc \in {"get", "set"}
                          /\ r.ok
                          /\ Len(inv'[p].http) = Len(inv[p].http) + 1
                          /\ SubSeq(inv'[p].http, 1, Len(inv[p].http))
                               = inv[p].http
                          /\ inv'[p].http[Len(inv'[p].http)].addr = r.val
                          /\ inv'[p].http[Len(inv'[p].http)].method
                               = IF inv[p].pc = "get" THEN "GET" ELSE "POST"]_vars

C20_Witness ==
    /\ inv[1].cmd = [fn |-> "wled_on", device |-> None]
    /\ inv[1].config.devices # EmptyMap
    /\ inv[1].config.default_device = None
    /\ inv[1].pc = "done"
    /\ inv[1].reply = Some(ToolError(NoDeviceSpecified))
    /\ inv[1].http = <<>>

\* C18: a save replaces the content of the file in one step: whenever the
\* file changes, its new content is the complete serialization of the
\* Config of the process that saves.
C18_SaveIsAtomic ==
    [][file' # file =>
        \E p \in Procs :
            /\ StepOf(p)
            /\ file' \in {Some(content) :
                            content \in to_string_pretty(inv[p].config)}]_vars

\* C19: racing invocations meet no error and the last save wins: a load
\* made while another process is inside save() succeeds, and when save()
\* returns Ok the file holds exactly the Config of the process that saved.
C19_LastWriterWins ==
    [][\A p \in Procs :
        StepOf(p) =>
            /\ (/\ inv[p].pc = "load"
                /\ \E q \in Procs \ {p} : inv[q].pc = "write"
                /\ inv'[p].stderr # <<"Error: " \o IoError>>) =>
                 inv'[p].pc = "mutate"
            /\ (inv[p].pc = "write" /\ inv'[p].pc = "report") =>
                 file' \in {Some(content) :
                              content \in to_string_pretty(inv[p].config)}
       ]_vars

(***************************************************************************)
(* The read-only commands and the tools.                                   *)
(***************************************************************************)
Statuses == {"ON", "OFF", "UNREACHABLE"}

\* The process has run the status sweep over a non-empty map to its end.
Swept(proc) ==
    /\ proc.cmd.fn \in {"status", "wled_status"}
    /\ proc.pc = "done"
    /\ proc.stderr = <<>>
    /\ DOMAIN proc.config.devices # {}
    /\ IsTool(proc.cmd) => ~proc.reply[1].is_error

\* The positions at which the sweep reported the entry n with status s.
ReportedAt(proc, n, s) ==
    IF IsTool(proc.cmd)
    THEN {i \in 1..Len(proc.output) :
            proc.output[i] = StatusLabel(proc.config, n) \o s \o "\n"}
    ELSE {i \in 1..Len(proc.stdout) :
            proc.stdout[i] = StatusLabel(proc.config, n) \o s}

\* The number of lines the sweep has reported.
ReportedLines(proc) ==
    IF IsTool(proc.cmd)
    THEN Len(SelectSeq(proc.output,
                       LAMBDA t : t \notin {"Checking status of all devices:\n\n",
                                            "\nWarning: Some devices are unreachable"}))
    ELSE Len(proc.stdout) - 2

\* C21: a status sweep (command or tool) that has ended reported exactly one
\* line per entry of devices, with exactly one of ON, OFF and UNREACHABLE,
\* and nothing else; it sent one request to the address of every entry
\* (none to an address no URL can be made of) and no other request; so an
\* unreachable device does not end the sweep.
C21_SweepChecksEveryDevice ==
    \A p \in Procs :
      Swept(inv[p]) =>
        LET c == inv[p].config
            reachable == {n \in DOMAIN c.devices : UrlOk(c.devices[n])}
        IN  /\ inv[p].todo = {}
            /\ ReportedLines(inv[p]) = Cardinality(DOMAIN c.devices)
            /\ \A n \in DOMAIN c.devices :
                 Cardinality(UNION {ReportedAt(inv[p], n, s) :
                                      s \in Statuses}) = 1
            /\ Len(inv[p].http) = Cardinality(reachable)
            /\ \A i \in 1..Len(inv[p].http) :
                 inv[p].http[i].method = "GET"
            /\ \A a \in {c.devices[n] : n \in DOMAIN c.devices} :
                 Cardinality({i \in 1..Len(inv[p].http) :
                                inv[p].http[i].addr = a})
                   = Cardinality({n \in reachable : c.devices[n] = a})

C21_Witness ==
    /\ inv[1].cmd.fn = "status"
    /\ inv[1].pc = "done"
    /\ inv[1].exit = Some(1)
    /\ Len(inv[1].stdout) = 5
    /\ \E n, m \in DOMAIN inv[1].config.devices :
         /\ n # m
         /\ inv[1].stdout[3]
              = StatusLabel(inv[1].config, n) \o "UNREACHABLE"
         /\ inv[1].stdout[4] = StatusLabel(inv[1].config, m) \o "ON"

\* The step of p meets an error: the file is unreadable or does not parse,
\* the name is not a key (delete, set-default), the save fails, no device
\* is resolved or no URL can be made of its address, or a request fails.
ErrorStep(p) ==
    LET proc == inv[p]
        cmd == proc.cmd
    IN  \/ /\ proc.pc = "load"
           /\ \/ file # None /\ ~from_str(file[1]).ok
              \/ inv'[p].pc = "done"
        \/ /\ proc.pc = "mutate"
           /\ cmd.fn \in {"delete", "set-default"}
           /\ cmd.name \notin DOMAIN proc.config.devices
        \/ /\ proc.pc \in {"save", "write"}
           /\ inv'[p].pc = "done"
        \/ /\ proc.pc = "resolve"
           /\ LET r == get_device_ip(proc.config, cmd.device)
              IN  ~r.ok \/ ~UrlOk(r.val)
        \/ /\ proc.pc \in {"get", "set"}
           /\ ~inv'[p].http[Len(inv'[p].http)].resp.ok

\* C22: a step of a command of the command line that meets an error ends
\* the command with exit code 1 and a message on stderr; the exit code is
\* set only by the last step of the command, and it is 0 exactly when that
\* step met no error and, for status, no entry was reported UNREACHABLE;
\* status sets it after the line of the last entry, to 1 exactly when some
\* entry was reported UNREACHABLE.
C22_ExitCode ==
    [][\A p \in Procs :
         (StepOf(p) /\ ~IsTool(inv'[p].cmd) /\ inv[p].pc # "done")
           => LET unreachable ==
                    \E n \in DOMAIN inv[p].config.devices :
                       ReportedAt(inv[p], n, "UNREACHABLE") # {}
              IN  /\ ErrorStep(p)
                    => /\ inv'[p].pc = "done"
                       /\ inv'[p].exit = Some(1)
                       /\ inv'[p].stderr # <<>>
                  /\ inv'[p].exit # None
                    => /\ inv'[p].pc = "done"
                       /\ inv'[p].exit \in {Some(0), Some(1)}
                       /\ inv'[p].exit = Some(0)
                            <=> (/\ ~ErrorStep(p)
                                 /\ inv'[p].stderr = <<>>
                                 /\ ~(inv[p].pc = "check" /\ unreachable))
                  /\ (inv[p].pc = "check" /\ inv'[p].pc = "done")
                    => /\ inv[p].todo = {}
                       /\ ReportedLines(inv[p])
                            = Cardinality(DOMAIN inv[p].config.devices)
                       /\ inv'[p].exit = Some(1) <=> unreachable]_vars

C22_Witness ==
    /\ inv[1].cmd.fn = "status"
    /\ inv[1].pc = "done"
    /\ inv[1].exit = Some(1)
    /\ inv[1].stderr = <<>>
    /\ Len(inv[1].stdout) = 4
    /\ \E n, m \in DOMAIN inv[1].config.devices :
         /\ inv[1].stdout[3] = StatusLabel(inv[1].config, n) \o "ON"
         /\ inv[1].stdout[4]
              = StatusLabel(inv[1].config, m) \o "UNREACHABLE"

\* The line of ls for the entry n of c, marked or not.
ListLine(c, n, marked) ==
    "  " \o n \o " - " \o c.devices[n]
    \o (IF marked THEN " (default)" ELSE "")

\* The listings of c that name every entry once, in any order, and mark
\* exactly the entry named by default_device.
Listings(c) ==
    {[i \in 1..Len(o) |-> ListLine(c, o[i], c.default_device = Some(o[i]))] :
       o \in Orderings(DOMAIN c.devices)}

\* The process has listed c: printed it, or returned it as a text.
Listed(proc, c) ==
    IF DOMAIN c.devices = {}
    THEN IF IsTool(proc.cmd)
         THEN proc.reply = Some(ToolSuccess("No devices saved"))
         ELSE proc.exit = Some(0) /\ proc.stdout = <<"No devices saved">>
    ELSE \E l \in Listings(c) :
           IF IsTool(proc.cmd)
           THEN proc.reply
                  = Some(ToolSuccess(
                      "Saved devices:\n"
                      \o Concat([i \in 1..Len(l) |-> l[i] \o "\n"])))
           ELSE /\ proc.exit = Some(0)
                /\ proc.stdout = <<"Saved devices:">> \o l

\* The process has ended an ls or a wled_devices.
ListDone(proc) ==
    proc.cmd.fn \in {"ls", "wled_devices"} /\ proc.pc = "done"

\* C23: ls (and wled_devices) lists the registry in the file: one line per
\* entry with its address, in some order, the entry named by default_device
\* marked and no other; no step of it changes the file.  After add
\* living_room and add bedroom on a fresh home directory only living_room
\* is marked; after delete living_room, bedroom is listed alone and marked.
C23_LsListsAndMarks ==
    [][\A p \in Procs :
         /\ (StepOf(p) /\ inv'[p].cmd.fn \in {"ls", "wled_devices"})
              => file' = file
         /\ ListDone(inv'[p])
              => /\ Listed(inv'[p], load(file').val)
                 /\ \A a, b \in Addrs :
                      LET lr == NamePool[1]
                          br == NamePool[2]
                          adds == <<[fn |-> "add", name |-> lr, ip |-> a],
                                    [fn |-> "add", name |-> br, ip |-> b]>>
                      IN  /\ calls' = adds
                            => (inv'[p].cmd.fn = "ls"
                                  => inv'[p].stdout \in
                                       {<<"Saved devices:",
                                          "  " \o lr \o " - " \o a
                                              \o " (default)",
                                          "  " \o br \o " - " \o b>>,
                                        <<"Saved devices:",
                                          "  " \o br \o " - " \o b,
                                          "  " \o lr \o " - " \o a
                                              \o " (default)">>})
                          /\ calls' = Append(adds,
                                             [fn |-> "delete", name |-> lr])
                            => (inv'[p].cmd.fn = "ls"
                                  => inv'[p].stdout
                                       = <<"Saved devices:",
                                           "  " \o br \o " - " \o b
                                               \o " (default)">>)]_vars

C23_Witness ==
    /\ calls = <<[fn |-> "add", name |-> "living_room",
                  ip |-> "192.168.1.100"],
                 [fn |-> "add", name |-> "bedroom", ip |-> "192.168.1.101"],
                 [fn |-> "delete", name |-> "living_room"]>>
    /\ inv[1].cmd.fn = "ls"
    /\ inv[1].pc = "done"
    /\ inv[1].stdout = <<"Saved devices:",
                         "  bedroom - 192.168.1.101 (default)">>

\* The devices answered the requests of the two processes alike, as far as
\* both sent them.
SameAnswers(a, b) ==
    \A i \in 1..Min(Len(a.http), Len(b.http)) : a.http[i].resp = b.http[i].resp

\* C24: an on, off or brightness command and the tool call with the same
\* arguments, run on the same file, resolve the same address and fail with
\* NoDeviceSpecified in the same cases; when the devices answer both alike
\* they send the same requests with the same state to the same address, and
\* the command exits with 0 exactly when the tool returns a success.
C24_ToolMirrorsCommand ==
    (inv[1].pc = "done" /\ inv[2].pc = "done")
      => LET a == inv[1]
             b == inv[2]
         IN  /\ a.config = b.config
             /\ a.ip = b.ip
             /\ Surfaced(a, NoDeviceSpecified)
                  <=> Surfaced(b, NoDeviceSpecified)
             /\ (a.http # <<>> /\ b.http # <<>>)
                  => /\ a.http[1].addr = b.http[1].addr
                     /\ a.http[1].method = b.http[1].method
             /\ SameAnswers(a, b)
                  => /\ a.http = b.http
                     /\ a.exit = Some(0) <=> ~b.reply[1].is_error
                     /\ a.stderr # <<>>
                          => a.stderr = <<"Error: " \o b.reply[1].text>>

C24_Witness ==
    /\ inv[1].pc = "done"
    /\ inv[2].pc = "done"
    /\ inv[1].cmd = [fn |-> "brightness", value |-> 255, device |-> None]
    /\ inv[1].exit = Some(0)
    /\ inv[2].reply
         = Some(ToolSuccess("Device brightness set to 255 successfully"))
    /\ Len(inv[1].http) = 2
    /\ inv[1].http[1].resp = Ok(Some([on |-> Some(FALSE), bri |-> Some(128)]))
    /\ inv[1].http = inv[2].http

\* C25: wled_status reports one outcome per entry as status does, and it
\* returns an error result exactly when status exits with a code other than
\* 0: when the file cannot be loaded or some entry was reported UNREACHABLE.
C25_StatusToolMirrorsCommand ==
    \A p \in Procs :
      (inv[p].cmd.fn = "wled_status" /\ inv[p].pc = "done")
        => /\ inv[p].reply # None
           /\ inv[p].reply[1].is_error
                <=> \/ \E n \in DOMAIN inv[p].config.devices :
                         ReportedAt(inv[p], n, "UNREACHABLE") # {}
                    \/ inv[p].output = <<>> /\ inv[p].reply[1].text
                                                 # "No devices saved"

\* The process is between the first call that changes its Config and the
\* end of its save.
Mutating(proc) == proc.pc \in {"mutate", "save", "write"}

\* C26: whatever tool calls the server runs at a time, none of them is ever
\* in add_device, remove_device, set_default or save, so no two of them are
\* at once, and every step that changes the file is a step of a command of
\* the command line.
C26_ToolsNeverWrite ==
    [][\A p \in Procs :
         /\ IsTool(inv'[p].cmd) => ~Mutating(inv'[p])
         /\ \A q \in Procs \ {p} :
              ~(/\ IsTool(inv'[p].cmd) /\ Mutating(inv'[p])
                /\ IsTool(inv'[q].cmd) /\ Mutating(inv'[q]))
         /\ (StepOf(p) /\ IsTool(inv'[p].cmd)) => file' = file]_vars

C26_Witness ==
    /\ inv[1].cmd = [fn |-> "wled_on", device |-> None]
    /\ inv[1].pc = "set"
    /\ inv[2].cmd.fn = "wled_status"
    /\ inv[2].pc = "check"
    /\ inv[2].todo = {}

\* The Configs a command can leave in the file when it finds c there.
Effect(cmd, c) ==
    CASE cmd.fn = "add" -> {add_device(c, cmd.name, cmd.ip)}
      [] cmd.fn = "delete" -> {o.config : o \in remove_device(c, cmd.name)}
      [] cmd.fn = "set-default" -> {set_default(c, cmd.name).config}

RECURSIVE Replay(_)
\* The Configs the file can hold after the commands of cmds have run one
\* after the other from a fresh home directory.
Replay(cmds) ==
    IF cmds = <<>>
    THEN {new}
    ELSE UNION {Effect(cmds[Len(cmds)], c) :
                  c \in Replay(SubSeq(cmds, 1, Len(cmds) - 1))}

\* C27: every command and every tool call starts with an empty Config of
\* its own and loads the file: what it then holds is the registry the
\* commands that ended before it have saved, one after the other, and it
\* is the registry in the file at that moment.
C27_LoadsWhatWasSaved ==
    [][\A p \in Procs :
         /\ (StepOf(p) /\ inv'[p].pc = "load")
              => /\ inv'[p].config = new
                 /\ inv'[p].stdout = <<>>
                 /\ inv'[p].http = <<>>
         /\ (StepOf(p) /\ inv[p].pc = "load")
              => LET before == IF IsMutation(inv[p].cmd)
                               THEN SubSeq(calls, 1, Len(calls) - 1)
                               ELSE calls
                 IN  /\ inv'[p].pc # "done"
                     /\ inv'[p].config \in Replay(before)
                     /\ file # None
                          => file[1] \in to_string_pretty(inv'[p].config)]_vars

C27_Witness ==
    /\ calls = <<[fn |-> "add", name |-> "living_room",
                  ip |-> "192.168.1.100"],
                 [fn |-> "set-default", name |-> "living_room"]>>
    /\ inv[1].cmd.fn = "wled_devices"
    /\ inv[1].pc = "list"
    /\ inv[1].config
         = [devices |-> [n \in {"living_room"} |-> "192.168.1.100"],
            default_device |-> Some("living_room")]

\* C28: in every registry the add command produces, in memory and in the
\* file, every key of devices is a non-empty string.
C28_NamesNonEmpty ==
    \A p \in Procs :
      /\ \A n \in DOMAIN inv[p].config.devices : n # ""
      /\ (file # None /\ from_str(file[1]).ok)
           => \A n \in DOMAIN from_str(file[1]).val.devices : n # ""

\* Both processes have returned from remove_device with Ok.
BothRemoved == inv[1].pc = "save" /\ inv[2].pc = "save"

\* C29: two registries with equal devices and default_device that perform
\* the same remove end with the same default_device.
C29_RemoveDeterministic ==
    BothRemoved => inv[1].config.default_device = inv[2].config.default_device

\* C29, amended: the two registries end with the same devices, and with the
\* same default_device unless the removed name was the default and two or
\* more entries remain; each then has some remaining key as its default, and
\* no more is determined.
C29_RemoveDeterministicUpToPromotion ==
    BothRemoved
      => LET a == inv[1].config
             b == inv[2].config
             before == load(file).val
             name == inv[1].cmd.name
         IN  /\ a.devices = b.devices
             /\ a.devices = remove(before.devices, name)
             /\ IF before.default_device = Some(name)
                THEN IF DOMAIN a.devices = {}
                     THEN a.default_device = None /\ b.default_device = None
                     ELSE /\ a.default_device # None
                          /\ b.default_device # None
                          /\ a.default_device[1] \in DOMAIN a.devices
                          /\ b.default_device[1] \in DOMAIN b.devices
                          /\ Cardinality(DOMAIN a.devices) = 1 => a = b
                ELSE /\ a.default_device = before.default_device
                     /\ a = b

C29_Witness ==
    /\ BothRemoved
    /\ inv[1].cmd.name = "living_room"
    /\ DOMAIN inv[1].config.devices = {"bedroom", "192.168.1.100"}
    /\ inv[1].config.default_device = Some("bedroom")
    /\ inv[2].config.default_device = Some("192.168.1.100")

\* C30: in every registry reachable from Config::new() by add_device,
\* remove_device and set_default, devices is empty exactly when the default
\* is unset, and get_device_ip(None) succeeds exactly when devices is not
\* empty.
C30_EmptyIffNoDefault ==
    /\ (DOMAIN config.devices = {}) <=> (config.default_device = None)
    /\ get_device_ip(config, None).ok <=> (DOMAIN config.devices # {})
    /\ (call.fn = "get_device_ip" /\ call.name_or_ip = None) =>
         (result.ok <=> (DOMAIN config.devices # {}))

\* The default was removed from a registry of two or more devices and
\* get_device_ip(None) then returned the address of a remaining one.
C30_Witness ==
    /\ call.fn = "get_device_ip"
    /\ call.name_or_ip = None
    /\ Len(calls) >= 3
    /\ LastCall.call.fn = "remove_device"
    /\ LastCall.result.ok
    /\ calls[1].call.name = LastCall.call.name
    /\ DOMAIN config.devices # {}
    /\ result.ok
    /\ result.val = config.devices[config.default_device[1]]

(***************************************************************************)
(* Races on the file, device updates, status and the add/remove inverse.   *)
(***************************************************************************)
\* The file holds a registry: Config::load would return it.
Persisted == file # None /\ from_str(file[1]).ok

PersistedConfig == from_str(file[1]).val

\* C31: under every interleaving of the loads and saves of concurrent add,
\* delete and set-default invocations, the registry in the file has a
\* default that is unset or is a key of its devices.
C31_PersistedDefaultUnsetOrKey ==
    Persisted => \/ PersistedConfig.default_device = None
                 \/ DefaultIsKey(PersistedConfig)

\* A lost update: both processes have added a device to the empty registry
\* they loaded and both have saved; the file holds the registry of one of
\* them, with its device as the default and without the device of the other.
C31_Witness ==
    /\ Persisted
    /\ \A p \in {1, 2} : inv[p].cmd.fn = "add" /\ inv[p].pc = "done"
                         /\ inv[p].exit = Some(0)
    /\ inv[1].cmd.name # inv[2].cmd.name
    /\ started = 2
    /\ Cardinality(DOMAIN PersistedConfig.devices) = 1
    /\ DefaultIsKey(PersistedConfig)

\* C32: no step of an ls, on, off, brightness or status command changes the
\* file, whatever the outcome of the command; after the load, no step of
\* it, get_device_ip included, changes the Config it holds, and it never
\* comes to a mutation or a save.
C32_ReadCommandsKeepRegistry ==
    [][\A p \in Procs :
         (StepOf(p) /\ inv'[p].cmd \in ReadCommands)
           => /\ file' = file
              /\ inv[p].pc \notin {"idle", "done", "load"}
                   => inv'[p].config = inv[p].config
              /\ inv'[p].pc \notin {"mutate", "save", "write"}]_vars

\* An off command resolved the default, retrieved the state and failed on
\* the update: the file still holds the registry the command loaded.
C32_Witness ==
    /\ inv[1].cmd = [fn |-> "off", device |-> None]
    /\ inv[1].pc = "done"
    /\ inv[1].exit = Some(1)
    /\ Len(inv[1].http) = 2
    /\ ~inv[1].http[2].resp.ok
    /\ Persisted
    /\ PersistedConfig = inv[1].config
    /\ Cardinality(DOMAIN inv[1].config.devices) >= 2

\* The positions of the updates among the requests of the process.
Posts(proc) == {i \in 1..Len(proc.http) : proc.http[i].method = "POST"}

\* The process has reported success: printed its message, exited with 0 or
\* returned a success result.
Succeeded(proc) ==
    \/ proc.stdout # <<>>
    \/ proc.exit = Some(0)
    \/ proc.reply # None /\ ~proc.reply[1].is_error

\* C33: an on, off or brightness command sends at most one update, and only
\* as its second request, after a retrieval from the same address that was
\* answered; when the retrieval fails the command fails and sends nothing
\* more; it reports success only after the update was acknowledged.
C33_GetBeforeSet ==
    \A p \in Procs :
      IsDeviceCommand(inv[p].cmd) =>
        LET proc == inv[p]
            http == proc.http
        IN  /\ Cardinality(Posts(proc)) <= 1
            /\ \A i \in Posts(proc) :
                 /\ i = 2
                 /\ http[1].method = "GET"
                 /\ http[1].resp.ok
                 /\ http[1].addr = http[2].addr
            /\ (http # <<>> /\ ~http[1].resp.ok)
                 => /\ Len(http) = 1
                    /\ proc.pc = "done"
                    /\ Failed(proc)
                    /\ ~Succeeded(proc)
            /\ (proc.pc = "set") => (Len(http) = 1 /\ http[1].resp.ok)
            /\ Succeeded(proc)
                 => /\ Len(http) = 2
                    /\ Posts(proc) = {2}
                    /\ http[2].resp.ok

\* A brightness command on a named device retrieved the state, sent the
\* update, had it acknowledged and exited with 0.
C33_Witness ==
    /\ inv[1].cmd.fn = "brightness"
    /\ inv[1].cmd.device # None
    /\ inv[1].pc = "done"
    /\ inv[1].exit = Some(0)
    /\ Len(inv[1].http) = 2
    /\ inv[1].http[1].method = "GET"
    /\ inv[1].http[2].method = "POST"
    /\ inv[1].http[2].resp = Ok(Unit)

\* C34: the state an on or off command sends is the state the device has
\* just returned with the power field set, and the state a brightness
\* command sends is that state with the brightness field set; the other
\* field goes back as it was retrieved (as in the default State when the
\* retrieval left no state).
C34_UpdateChangesOneField ==
    \A p \in Procs :
      (IsDeviceCommand(inv[p].cmd) /\ Posts(inv[p]) # {}) =>
        LET cmd == inv[p].cmd
            retrieved == inv[p].http[1].resp.val
            base == IF retrieved = None THEN DefaultState ELSE retrieved[1]
            body == inv[p].http[2].body
        IN  /\ body # None
            /\ DOMAIN body[1] = DOMAIN base
            /\ IsPower(cmd)
                 => /\ body[1].on = Some(cmd.fn \in {"on", "wled_on"})
                    /\ body[1].bri = base.bri
            /\ IsBrightness(cmd)
                 => /\ body[1].bri = Some(cmd.value)
                    /\ body[1].on = base.on

\* An off command on a device that reported on = true and a brightness
\* sent back on = false with the same brightness.
C34_Witness ==
    /\ inv[1].cmd.fn = "off"
    /\ Len(inv[1].http) = 2
    /\ inv[1].http[1].resp = Ok(Some([on |-> Some(TRUE), bri |-> Some(128)]))
    /\ inv[1].http[2].body = Some([on |-> Some(FALSE), bri |-> Some(128)])

\* The line the step of p has added for the entry n with the status s.
StatusLine(p, n, s) ==
    IF IsTool(inv[p].cmd)
    THEN /\ Len(inv'[p].output) = Len(inv[p].output) + 1
         /\ inv'[p].output[Len(inv'[p].output)]
              = StatusLabel(inv[p].config, n) \o s \o "\n"
    ELSE /\ Len(inv'[p].stdout) = Len(inv[p].stdout) + 1
         /\ inv'[p].stdout[Len(inv'[p].stdout)]
              = StatusLabel(inv[p].config, n) \o s

\* C35: the status reported for an entry is UNREACHABLE exactly when no
\* client can be made of its address or the retrieval of the state fails;
\* when the retrieval succeeds it is OFF exactly when the device reports
\* on = false, and ON otherwise, also when the device reports no power
\* field or no state.
C35_StatusOfDevice ==
    [][\A p \in Procs :
         (StepOf(p) /\ inv[p].pc = "check" /\ inv[p].todo # {})
           => \E n \in inv[p].todo, s \in Statuses :
                LET ip == inv[p].config.devices[n]
                    asked == Len(inv'[p].http) = Len(inv[p].http) + 1
                    answer == inv'[p].http[Len(inv'[p].http)].resp
                IN  /\ inv'[p].todo = inv[p].todo \ {n}
                    /\ StatusLine(p, n, s)
                    /\ asked <=> UrlOk(ip)
                    /\ ~asked => inv'[p].http = inv[p].http
                    /\ asked => inv'[p].http[Len(inv'[p].http)].addr = ip
                    /\ (s = "UNREACHABLE") <=> (~UrlOk(ip) \/ ~answer.ok)
                    /\ (s = "OFF")
                         <=> /\ asked
                             /\ answer.ok
                             /\ answer.val # None
                             /\ answer.val[1].on = Some(FALSE)
                    /\ (asked /\ answer.ok
                          /\ (\/ answer.val = None
                              \/ answer.val[1].on \in {None, Some(TRUE)}))
                         => s = "ON"]_vars

\* A status command on a registry of one entry whose device answered with
\* a state without a power field, and was reported ON.
C35_Witness ==
    /\ inv[1].cmd.fn = "status"
    /\ inv[1].pc = "done"
    /\ inv[1].exit = Some(0)
    /\ Len(inv[1].http) = 1
    /\ inv[1].http[1].resp = Ok(Some([on |-> None, bri |-> None]))
    /\ \E n \in DOMAIN inv[1].config.devices :
         /\ DOMAIN inv[1].config.devices = {n}
         /\ inv[1].stdout[Len(inv[1].stdout)]
              = StatusLabel(inv[1].config, n) \o "ON"

\* C36: when add_device has inserted a name that was not a key, in any
\* registry reached from Config::new(), remove_device of that name, called
\* next, returns Ok and leaves the registry as it was before the add: the
\* same devices and the same default.
C36_AddThenRemoveRestores ==
    [][(AddStep /\ call'.name \notin DOMAIN config.devices) =>
         /\ remove_device(config', call'.name) # {}
         /\ \A o \in remove_device(config', call'.name) :
              /\ o.result = Ok(Unit)
              /\ o.config.devices = config.devices
              /\ o.config.default_device = config.default_device]_vars

\* A second device was added to a registry with a default and removed by
\* the next call: the registry holds the first device, still the default.
C36_Witness ==
    /\ Len(calls) = 3
    /\ \A i \in 1..2 : IsAdd(calls[i])
    /\ calls[1].call.name # calls[2].call.name
    /\ LastCall.call = [fn |-> "remove_device", name |-> calls[2].call.name]
    /\ LastCall.result = Ok(Unit)
    /\ config.devices = calls[1].call.name :> calls[1].call.ip
    /\ config.default_device = Some(calls[1].call.name)
====
